---------------------------- MODULE Spec2Model ----------------------------
(***************************************************************************)
(* JurisNote AI (src/app.py): a Streamlit script that sends pasted case    *)
(* text to a generation service, parses the JSON answer, lets the user     *)
(* review it in a form, appends the reviewed row to a spreadsheet and      *)
(* lists / filters the saved rows.                                         *)
(*                                                                         *)
(* One action of the model is one run of the script (Streamlit runs the    *)
(* whole script, top to bottom, once per user interaction and once more    *)
(* after every st.rerun()).                                                *)
(*                                                                         *)
(* Texts are TLA+ strings, read character by character with SubSeq.  Two   *)
(* kinds of character cannot be written in a TLA+ string literal and are   *)
(* transliterated one to one, which keeps every substring relation:        *)
(*   - the backtick of a markdown fence is written as the apostrophe ',    *)
(*     so the fence markers of app.py:57 read '''json and ''' here;        *)
(*   - each Hangul syllable is written as one Latin letter, listed         *)
(*     where the text is defined.                                          *)
(***************************************************************************)
EXTENDS Integers, Sequences, FiniteSets, TLC

VARIABLES
    session_state,   \* st.session_state: a function whose domain is {} or {"temp_res"}
    sheet,           \* app.py:78, the value init_spreadsheet() returned in the latest run
    store,           \* the data rows of worksheet JurisNote_DB.sheet1, below its header row
    menu,            \* app.py:81, the sidebar radio
    rerun,           \* TRUE while an st.rerun() asked for a run that has not started yet
    event,           \* the interaction that started the latest run
    response,        \* the generation call's outcome in the latest run
    msgs,            \* the st.error / st.warning / st.success / st.info boxes of the latest run
    raised,          \* the exception that ended the latest run, or "none"
    form_shown,      \* whether the latest run rendered the edit_and_save_form
    cards,           \* the expanders the latest run rendered, in order
    df,              \* the records the latest run got from sheet.get_all_records()
    filters,         \* <<selected_cat1, search_q>> of the latest Browse run
    gen,             \* history: how many analyses have stored a result so far
    row_gen,         \* history: for each stored row, the analysis its pending result came from
    submitted,       \* history: for each stored row, the widget values of the submit that wrote it
    init_failed      \* history: init_spreadsheet() has returned None in some run of this session

vars == <<session_state, sheet, store, menu, rerun, event, response, msgs, raised,
          form_shown, cards, df, filters, gen, row_gen, submitted, init_failed>>

-----------------------------------------------------------------------------
(* Text primitives of the Python runtime the script relies on.             *)

Ch(s, i) == SubSeq(s, i, i)

\* The only whitespace character of the modelled alphabet.
IsSpace(c) == c = " "

\* s[i:] starts with pat
StartsAt(s, i, pat) == /\ i + Len(pat) - 1 <= Len(s)
                       /\ SubSeq(s, i, i + Len(pat) - 1) = pat

\* Python's `pat in s` for plain strings.
Contains(s, pat) == \E i \in 1..(Len(s) + 1) : StartsAt(s, i, pat)

\* str.find(pat) + 1: where pat first occurs in s, 0 when it does not.
Find(s, pat) ==
    IF Contains(s, pat)
    THEN CHOOSE i \in 1..(Len(s) + 1) :
             /\ StartsAt(s, i, pat)
             /\ \A j \in 1..(i - 1) : ~StartsAt(s, j, pat)
    ELSE 0

\* str.replace(pat, new): every non-overlapping occurrence, scanning left to right.
RECURSIVE Replace(_, _, _)
Replace(s, pat, new) ==
    LET i == Find(s, pat)
    IN  IF i = 0 \/ Len(pat) = 0 THEN s
        ELSE SubSeq(s, 1, i - 1) \o new
             \o Replace(SubSeq(s, i + Len(pat), Len(s)), pat, new)

RECURSIVE LStrip(_)
LStrip(s) == IF Len(s) > 0 /\ IsSpace(Ch(s, 1)) THEN LStrip(Tail(s)) ELSE s

RECURSIVE RStrip(_)
RStrip(s) == IF Len(s) > 0 /\ IsSpace(Ch(s, Len(s)))
             THEN RStrip(SubSeq(s, 1, Len(s) - 1)) ELSE s

\* str.strip()
Strip(s) == RStrip(LStrip(s))

\* str.split(sep) for a one-character separator.
RECURSIVE Split(_, _)
Split(s, sep) ==
    LET i == Find(s, sep)
    IN  IF i = 0 THEN <<s>>
        ELSE <<SubSeq(s, 1, i - 1)>> \o Split(SubSeq(s, i + 1, Len(s)), sep)

-----------------------------------------------------------------------------
(* json.loads (app.py:58).  A parsed value is a record                     *)
(*   kind    : "object" | "array" | "string" | "number" | "true" | "false" *)
(*             | "null"                                                    *)
(*   text    : the characters of a string, the digits of a number          *)
(*   members : <<key, value>> pairs of an object, in insertion order;      *)
(*             <<"", value>> pairs of an array                             *)
(* The modelled alphabet has no backslash, no control character and no     *)
(* fraction or exponent, so a string ends at the next double quote and a   *)
(* number is an integer.                                                   *)

Digits == {"0", "1", "2", "3", "4", "5", "6", "7", "8", "9"}

DigitVal(c) == CASE c = "0" -> 0 [] c = "1" -> 1 [] c = "2" -> 2 [] c = "3" -> 3
                 [] c = "4" -> 4 [] c = "5" -> 5 [] c = "6" -> 6 [] c = "7" -> 7
                 [] c = "8" -> 8 [] c = "9" -> 9

JVal(k, t, m) == [kind |-> k, text |-> t, members |-> m]
JString(t) == JVal("string", t, <<>>)
JNull == JVal("null", "", <<>>)
JObject(m) == JVal("object", "", m)

ParseFail == [ok |-> FALSE, next |-> 0, val |-> JNull]
ParseOk(v, n) == [ok |-> TRUE, next |-> n, val |-> v]

\* json.decoder WHITESPACE.match(s, i).end()
RECURSIVE SkipWs(_, _)
SkipWs(s, i) == IF i <= Len(s) /\ IsSpace(Ch(s, i)) THEN SkipWs(s, i + 1) ELSE i

\* The index of the first double quote at or after i, or 0.
QuoteFrom(s, i) ==
    LET k == Find(SubSeq(s, i, Len(s)), "\"") IN IF k = 0 THEN 0 ELSE i + k - 1

\* json.decoder.scanstring: s[i] is the opening quote.
ParseString(s, i) ==
    LET j == QuoteFrom(s, i + 1)
    IN  IF j = 0 THEN ParseFail
        ELSE ParseOk(JString(SubSeq(s, i + 1, j - 1)), j + 1)

RECURSIVE DigitsEnd(_, _)
DigitsEnd(s, i) == IF i <= Len(s) /\ Ch(s, i) \in Digits THEN DigitsEnd(s, i + 1) ELSE i

\* json.scanner NUMBER_RE: (-?(?:0|[1-9]\d*)), matched at i.
ParseNumber(s, i) ==
    LET d == IF Ch(s, i) = "-" THEN i + 1 ELSE i
    IN  IF d > Len(s) \/ Ch(s, d) \notin Digits THEN ParseFail
        ELSE LET e == IF Ch(s, d) = "0" THEN d + 1 ELSE DigitsEnd(s, d)
             IN  ParseOk(JVal("number", SubSeq(s, i, e - 1), <<>>), e)

\* dict[k] = v: a repeated key keeps its place and takes the later value.
DictSet(m, k, v) ==
    IF \E n \in 1..Len(m) : m[n][1] = k
    THEN [n \in 1..Len(m) |-> IF m[n][1] = k THEN <<k, v>> ELSE m[n]]
    ELSE Append(m, <<k, v>>)

RECURSIVE ParseValue(_, _)
RECURSIVE ArrayAfter(_, _, _)
RECURSIVE ObjectKey(_, _, _)

\* JSONArray: element r has been read; items are the elements before it.
ArrayNext(s, items, r) ==
    IF ~r.ok THEN ParseFail
    ELSE ArrayAfter(s, Append(items, <<"", r.val>>), SkipWs(s, r.next))

\* JSONArray: after an element, at j: the closing bracket, or a comma and the next element.
ArrayAfter(s, items, j) ==
    IF j > Len(s) THEN ParseFail
    ELSE IF Ch(s, j) = "]" THEN ParseOk(JVal("array", "", items), j + 1)
    ELSE IF Ch(s, j) # "," THEN ParseFail
    ELSE ArrayNext(s, items, ParseValue(s, SkipWs(s, j + 1)))

\* JSONObject: after a member, at j: the closing brace, or a comma and the next key.
ObjectAfter(s, items, j) ==
    IF j > Len(s) THEN ParseFail
    ELSE IF Ch(s, j) = "}" THEN ParseOk(JObject(items), j + 1)
    ELSE IF Ch(s, j) # "," THEN ParseFail
    ELSE ObjectKey(s, items, SkipWs(s, j + 1))

\* JSONObject: the member's value r has been read.
ObjectValue(s, items, key, r) ==
    IF ~r.ok THEN ParseFail
    ELSE ObjectAfter(s, DictSet(items, key, r.val), SkipWs(s, r.next))

\* JSONObject: the key k has been read; a colon and the value follow.
ObjectColon(s, items, k, c) ==
    IF c > Len(s) \/ Ch(s, c) # ":" THEN ParseFail
    ELSE ObjectValue(s, items, k.val.text, ParseValue(s, SkipWs(s, c + 1)))

\* JSONObject: the key's string k has been scanned.
ObjectKeyRead(s, items, k) ==
    IF ~k.ok THEN ParseFail ELSE ObjectColon(s, items, k, SkipWs(s, k.next))

\* JSONObject: a key must start at i ("Expecting property name enclosed in double quotes").
ObjectKey(s, items, i) ==
    IF i > Len(s) \/ Ch(s, i) # "\"" THEN ParseFail
    ELSE ObjectKeyRead(s, items, ParseString(s, i))

\* JSONObject / JSONArray: j is the first non-blank position after the opening bracket.
Container(s, j, close) ==
    IF j <= Len(s) /\ Ch(s, j) = close
    THEN ParseOk(IF close = "}" THEN JObject(<<>>) ELSE JVal("array", "", <<>>), j + 1)
    ELSE IF close = "}" THEN ObjectKey(s, <<>>, j)
    ELSE ArrayNext(s, <<>>, ParseValue(s, j))

\* json.scanner's scan_once(s, i)
ParseValue(s, i) ==
    IF i > Len(s) THEN ParseFail
    ELSE IF Ch(s, i) = "\"" THEN ParseString(s, i)
    ELSE IF Ch(s, i) \in {"{", "["}
         THEN Container(s, SkipWs(s, i + 1), IF Ch(s, i) = "{" THEN "}" ELSE "]")
    ELSE IF StartsAt(s, i, "null") THEN ParseOk(JNull, i + 4)
    ELSE IF StartsAt(s, i, "true") THEN ParseOk(JVal("true", "", <<>>), i + 4)
    ELSE IF StartsAt(s, i, "false") THEN ParseOk(JVal("false", "", <<>>), i + 5)
    ELSE IF Ch(s, i) \in Digits \cup {"-"} THEN ParseNumber(s, i)
    ELSE ParseFail

\* json.loads: the value r must be followed by nothing but whitespace ("Extra data").
WholeText(s, r) == IF r.ok /\ SkipWs(s, r.next) = Len(s) + 1 THEN r ELSE ParseFail

\* json.loads(s)
json_loads(s) == WholeText(s, ParseValue(s, SkipWs(s, 1)))

\* Python's truth value of a parsed value (`if res:`, app.py:94).
Truthy(v) ==
    CASE v.kind = "object" -> Len(v.members) > 0
      [] v.kind = "array"  -> Len(v.members) > 0
      [] v.kind = "string" -> Len(v.text) > 0
      [] v.kind = "number" -> \E i \in 1..Len(v.text) : Ch(v.text, i) \in Digits \ {"0"}
      [] v.kind = "true"   -> TRUE
      [] OTHER             -> FALSE

\* `k in res` for a dict
HasKey(v, k) == v.kind = "object" /\ \E n \in 1..Len(v.members) : v.members[n][1] = k

\* res[k] for a dict that has k
Get(v, k) == LET n == CHOOSE n \in 1..Len(v.members) : v.members[n][1] = k
             IN  v.members[n][2]

-----------------------------------------------------------------------------
(* get_ai_analysis (app.py:23-61) after the prompt is built.               *)

FENCE_JSON == "'''json"
FENCE == "'''"

\* app.py:57
CleanJson(text) == Strip(Replace(Replace(text, FENCE_JSON, ""), FENCE, ""))

\* The outcome of the generation call (app.py:56): it raised, or it answered with a text.
Raises == [raised |-> TRUE, text |-> ""]
Answers(t) == [raised |-> FALSE, text |-> t]

\* app.py:58-61: what get_ai_analysis returns for the outcome r of json.loads.
\* [err, res]: err is whether the except branch ran (st.error, return None).
Returned(r) == IF r.ok THEN [err |-> FALSE, res |-> r.val] ELSE [err |-> TRUE, res |-> JNull]

\* app.py:56-61
get_ai_analysis(outcome) ==
    IF outcome.raised THEN [err |-> TRUE, res |-> JNull]
    ELSE Returned(json_loads(CleanJson(outcome.text)))

-----------------------------------------------------------------------------
(* Dates: datetime.strptime(res['date'], "%Y-%m-%d") and str(final_date)   *)
(* (app.py:126-131, 150).  A date is a record [y, m, d].                   *)

DigitChar(n) == CASE n = 0 -> "0" [] n = 1 -> "1" [] n = 2 -> "2" [] n = 3 -> "3"
                  [] n = 4 -> "4" [] n = 5 -> "5" [] n = 6 -> "6" [] n = 7 -> "7"
                  [] n = 8 -> "8" [] n = 9 -> "9"

\* The number a run of digits s[i..j] writes, i <= j + 1.
RECURSIVE NumberOf(_, _, _)
NumberOf(s, i, j) == IF j < i THEN 0 ELSE 10 * NumberOf(s, i, j - 1) + DigitVal(Ch(s, j))

AllDigits(s, i, j) == \A k \in i..j : k <= Len(s) /\ Ch(s, k) \in Digits

IsLeap(y) == (y % 4 = 0 /\ y % 100 # 0) \/ y % 400 = 0

DaysIn(y, m) == IF m = 2 THEN (IF IsLeap(y) THEN 29 ELSE 28)
                ELSE IF m \in {4, 6, 9, 11} THEN 30 ELSE 31

NoDate == [y |-> 0, m |-> 0, d |-> 0]

\* %m and %d: two digits when two digits follow, else one; the value must be in 1..max.
\* [ok, val, next] of the field that starts at i.
DayOrMonth(s, i, max) ==
    LET two == AllDigits(s, i, i + 1)
        len == IF two THEN 2 ELSE 1
        n   == IF AllDigits(s, i, i + len - 1) THEN NumberOf(s, i, i + len - 1) ELSE 0
    IN  [ok |-> n >= 1 /\ n <= max, val |-> n, next |-> i + len]

\* datetime.strptime(s, "%Y-%m-%d"): [ok, date]; ok is FALSE where it raises ValueError.
strptime(s) ==
    IF ~(AllDigits(s, 1, 4) /\ Len(s) >= 5 /\ Ch(s, 5) = "-") THEN [ok |-> FALSE, date |-> NoDate]
    ELSE LET y  == NumberOf(s, 1, 4)
             mo == DayOrMonth(s, 6, 12)
         IN  IF ~mo.ok \/ mo.next > Len(s) \/ Ch(s, mo.next) # "-" \/ y < 1
             THEN [ok |-> FALSE, date |-> NoDate]
             ELSE LET da == DayOrMonth(s, mo.next + 1, DaysIn(y, mo.val))
                  IN  IF da.ok /\ da.next = Len(s) + 1
                      THEN [ok |-> TRUE, date |-> [y |-> y, m |-> mo.val, d |-> da.val]]
                      ELSE [ok |-> FALSE, date |-> NoDate]

Pad2(n) == DigitChar(n \div 10) \o DigitChar(n % 10)

Pad4(n) == DigitChar(n \div 1000) \o DigitChar((n \div 100) % 10)
           \o DigitChar((n \div 10) % 10) \o DigitChar(n % 10)

\* str(final_date), date.isoformat()
DateStr(dt) == Pad4(dt.y) \o "-" \o Pad2(dt.m) \o "-" \o Pad2(dt.d)

\* datetime.now() (app.py:129): the day the session runs on.
Now == [y |-> 2026, m |-> 11, d |-> 5]

-----------------------------------------------------------------------------
(* The review form (app.py:102-142) and the record it assembles            *)
(* (app.py:148-160).                                                       *)

\* The value= a text widget is given: the text of a string value.
FormText(v) == v.text

\* res.get(k, '')
GetOr(res, k) == IF HasKey(res, k) THEN FormText(Get(res, k)) ELSE ""

\* app.py:126-129: the try around strptime(res['date']) and its bare except.
DateOr(p) == IF p.ok THEN p.date ELSE Now

target_date(res) ==
    IF HasKey(res, "date") /\ Get(res, "date").kind = "string"
    THEN DateOr(strptime(Get(res, "date").text))
    ELSE Now

\* A form that reads res['date'] unguarded as well, to compare with.
RenderErrorDate(res) ==
    IF res.kind # "object" THEN "TypeError"
    ELSE IF \E k \in {"title", "categories", "date"} : ~HasKey(res, k) THEN "KeyError"
    ELSE "none"

\* The exception that ends the rendering of the form for pending result res, or "none":
\* res['title'] (app.py:105) and res['categories'] (app.py:119) are unguarded.
RenderError(res) ==
    IF res.kind # "object" THEN "TypeError"
    ELSE IF ~HasKey(res, "title") THEN "KeyError"
    ELSE IF ~HasKey(res, "categories") THEN "KeyError"
    ELSE "none"

\* What the widgets of the form hold when the user has changed nothing.
Defaults(res) ==
    [final_case_no  |-> GetOr(res, "case_no"),
     final_cats     |-> FormText(Get(res, "categories")),
     final_facts    |-> GetOr(res, "facts"),
     final_issues   |-> GetOr(res, "issues"),
     final_laws     |-> GetOr(res, "laws"),
     final_date     |-> target_date(res),
     final_title    |-> FormText(Get(res, "title")),
     final_holdings |-> GetOr(res, "holdings"),
     final_insight  |-> GetOr(res, "insight"),
     case_url       |-> "",
     user_memo      |-> ""]

\* A row with the title and the classification in each other's column, to compare with.
RowSwapped(w) == <<w.final_case_no, DateStr(w.final_date), w.final_cats, w.final_title,
                   w.final_facts, w.final_issues, w.final_laws, w.final_holdings,
                   w.final_insight, w.user_memo, w.case_url>>

\* app.py:148-160: the row, in the column order A..K.
Row(w) == <<w.final_case_no, DateStr(w.final_date), w.final_title, w.final_cats,
            w.final_facts, w.final_issues, w.final_laws, w.final_holdings,
            w.final_insight, w.user_memo, w.case_url>>

-----------------------------------------------------------------------------
(* The worksheet (app.py:147, 183).  Its header row carries the names the  *)
(* Browse view reads by; they are romanised here:                          *)
(*   SeonGoIlJa = seon-go-il-ja (date)    SaGeonMyeong = sa-geon-myeong    *)
(*   BunRyu = bun-ryu (categories)        SaSilGwanGye (facts)             *)
(*   JaengJeom (issues)                   GwanRyeonBeopRyul (laws)         *)
(*   PanGyeolYoJi (holdings)              SilMuJeokUiUi (insight)          *)
(*   NaeMemo (memo)                                                        *)

HEADER == <<"ID", "SeonGoIlJa", "SaGeonMyeong", "BunRyu", "SaSilGwanGye", "JaengJeom",
            "GwanRyeonBeopRyul", "PanGyeolYoJi", "SilMuJeokUiUi", "NaeMemo", "URL">>

Columns == {HEADER[i] : i \in 1..Len(HEADER)}

ColumnOf(name) == CHOOSE i \in 1..Len(HEADER) : HEADER[i] = name

\* sheet.get_all_records(): one dict per data row, keyed by the header row.
get_all_records(rows) ==
    [i \in 1..Len(rows) |-> [h \in Columns |-> rows[i][ColumnOf(h)]]]

-----------------------------------------------------------------------------
(* pandas Series.str.contains(pat) (app.py:194, 197-199): regex=True is    *)
(* the default, so pat is compiled by re and searched for.  Patterns are   *)
(* over letters, the dot and the two parentheses: a dot matches any        *)
(* character, a parenthesis pair is a group and matches what it encloses.  *)

\* re.compile(pat) succeeds: the parentheses balance.
RECURSIVE Balanced(_, _, _)
Balanced(pat, i, depth) ==
    IF i > Len(pat) THEN depth = 0
    ELSE IF Ch(pat, i) = "(" THEN Balanced(pat, i + 1, depth + 1)
    ELSE IF Ch(pat, i) = ")" THEN depth > 0 /\ Balanced(pat, i + 1, depth - 1)
    ELSE Balanced(pat, i + 1, depth)

re_compiles(pat) == Balanced(pat, 1, 0)

\* The atoms of a compiled pattern, its group parentheses dropped.
Atoms(pat) == Replace(Replace(pat, "(", ""), ")", "")

\* The atoms match s at position i.
MatchAt(s, i, atoms) ==
    /\ i + Len(atoms) - 1 <= Len(s)
    /\ \A k \in 1..Len(atoms) : Ch(atoms, k) = "." \/ Ch(atoms, k) = Ch(s, i + k - 1)

\* re.search(pat, s) is not None, for a pattern that compiles.
re_search(pat, s) == \E i \in 1..(Len(s) + 1) : MatchAt(s, i, Atoms(pat))

\* One element of Series.str.contains(pat).
str_contains(s, pat) == re_search(pat, s)

-----------------------------------------------------------------------------
(* The taxonomy and the two menus (app.py:13-20, 81).  Hangul, one letter  *)
(* per syllable: min M, sa S, beop B, hyeong H, haeng G, jeong J, heon E,  *)
(* ji Z, sik C, jae W, san N, gwon R, gi K, ta T, jeon A, che L.           *)

\* list(LEGAL_TAXONOMY.keys()): minsabeop, hyeongsabeop, haengjeongbeop, heonbeop,
\* jisikjaesangwonbeop, gita
LEGAL_TAXONOMY_keys == <<"MSB", "HSB", "GJB", "EB", "ZCWNRB", "KT">>

\* "jeonche" (all), the first entry of cat1_list (app.py:188)
ALL == "AL"

cat1_list == <<ALL>> \o LEGAL_TAXONOMY_keys

MENU_ANALYZE == "analyze_and_register"
MENU_BROWSE == "browse"

-----------------------------------------------------------------------------
(* The Browse view (app.py:179-227).                                       *)

\* app.py:193-194
CategoryFilter(records, cat) ==
    IF cat # ALL
    THEN LET Keep(r) == str_contains(r["BunRyu"], cat) IN SelectSeq(records, Keep)
    ELSE records

\* app.py:195-199, for a query that compiles
SearchFilter(records, q) ==
    IF q # ""
    THEN LET Keep(r) == \/ str_contains(r["SaGeonMyeong"], q)
                        \/ str_contains(r["JaengJeom"], q)
                        \/ str_contains(r["PanGyeolYoJi"], q)
         IN  SelectSeq(records, Keep)
    ELSE records

\* [t.strip() for t in row['BunRyu'].split('|')]
Tags(s) == LET parts == Split(s, "|") IN [i \in 1..Len(parts) |-> Strip(parts[i])]

\* app.py:203-225: one expander
Card(r) ==
    [head_date  |-> r["SeonGoIlJa"],
     head_title |-> r["SaGeonMyeong"],
     tags       |-> Tags(r["BunRyu"]),
     facts      |-> r["SaSilGwanGye"],
     issues     |-> r["JaengJeom"],
     laws       |-> r["GwanRyeonBeopRyul"],
     holdings   |-> r["PanGyeolYoJi"],
     insight    |-> r["SilMuJeokUiUi"],
     memo_box   |-> r["NaeMemo"] # "",
     memo       |-> r["NaeMemo"],
     link       |-> r["URL"] # "",
     url        |-> r["URL"]]

\* A test that lets a missing worksheet through, to compare with.
SheetUsableAlways(sh) == TRUE

\* `if sheet:` (app.py:162, 182)
SheetUsable(sh) == sh # "None"

\* app.py:182-184
BrowseDf(sh, rows) == IF SheetUsable(sh) THEN get_all_records(rows) ELSE <<>>

\* The sidebar filter widgets are rendered (app.py:186-190).
FiltersRendered(sh, rows) == SheetUsable(sh) /\ Len(rows) > 0

\* The exception that ends a Browse run, or "none": re.error from the search pattern.
BrowseRaised(sh, rows, cat, q) ==
    IF FiltersRendered(sh, rows) /\ q # "" /\ ~re_compiles(q) THEN "re.error" ELSE "none"

\* app.py:202-225: one card per surviving row, in order
Cards(shown) == [i \in 1..Len(shown) |-> Card(shown[i])]

\* app.py:192-202: the cards of a Browse run
BrowseCards(sh, rows, cat, q) ==
    IF BrowseRaised(sh, rows, cat, q) # "none" THEN <<>>
    ELSE Cards(SearchFilter(CategoryFilter(BrowseDf(sh, rows), cat), q))

\* app.py:226-227
BrowseMsgs(sh, rows) == IF SheetUsable(sh) /\ Len(rows) = 0 THEN {"info_empty"} ELSE {}

-----------------------------------------------------------------------------
(* One run of the script.  st.session_state, the worksheet's rows and the  *)
(* selected menu survive from run to run; everything else is rebuilt.      *)

\* Bounds of the model.
MaxRows == 2
MaxAnalyses == 2

\* st.session_state of a new session
NoState == [k \in {} |-> JNull]

\* st.session_state['temp_res'] = res (app.py:96)
WithTempRes(ss, res) ==
    [k \in DOMAIN ss \cup {"temp_res"} |-> IF k = "temp_res" THEN res ELSE ss[k]]

\* del st.session_state['temp_res'] (app.py:166, 175)
DelTempRes(ss) == [k \in DOMAIN ss \ {"temp_res"} |-> ss[k]]

\* 'temp_res' in st.session_state (app.py:102)
HasTempRes(ss) == "temp_res" \in DOMAIN ss

\* init_spreadsheet() (app.py:64-76): the worksheet, or None after st.error.
init_spreadsheet(ok) == IF ok THEN "sheet1" ELSE "None"

\* app.py:75
SheetMsgs(ok) == IF ok THEN {} ELSE {"sheet_error"}

\* The call of the generation service made by a run (app.py:56), for the record.
NotCalled == [called |-> FALSE, raised |-> FALSE, text |-> ""]
Called(outcome) == [called |-> TRUE, raised |-> outcome.raised, text |-> outcome.text]

NoFilters == <<ALL, "">>

\* app.py:90-96: the session state after the analyze button's handler;
\* a is what get_ai_analysis returned.
AfterAnalyze(ss, case_content, a) ==
    IF case_content # "" /\ Truthy(a.res) THEN WithTempRes(ss, a.res) ELSE ss

\* app.py:60, 98
AnalyzeMsgs(case_content, a) ==
    IF case_content = "" THEN {"warn_empty"}
    ELSE IF a.err THEN {"ai_error"} ELSE {}

\* app.py:102-142: the exception that ends the run while the form is drawn, or "none".
FormRaised(ss) == IF HasTempRes(ss) THEN RenderError(ss["temp_res"]) ELSE "none"

\* app.py:102-142: the form was drawn to its submit button.
FormShown(ss) == HasTempRes(ss) /\ RenderError(ss["temp_res"]) = "none"

\* app.py:162-163: append_row was called and returned.
Saved(sh, append_ok) == SheetUsable(sh) /\ append_ok

\* Two other submit handlers, to compare with: one clears the pending result on
\* every path, one on none.
AfterSubmitAlways(ss, saved) == DelTempRes(ss)
AfterSubmitKeep(ss, saved) == ss

\* app.py:162-171: the session state the submit handler leaves.
AfterSubmit(ss, saved) == IF saved THEN DelTempRes(ss) ELSE ss

\* app.py:164, 169, 171
SubmitMsgs(sh, append_ok) ==
    IF Saved(sh, append_ok) THEN {"save_success"}
    ELSE IF SheetUsable(sh) THEN {"save_exception"} ELSE {"save_no_sheet"}

\* The first run of a session: the Analyze menu, nothing clicked.
Init ==
    \E ok \in BOOLEAN :
        /\ session_state = NoState
        /\ sheet = init_spreadsheet(ok)
        /\ init_failed = ~ok
        /\ store = <<>> /\ row_gen = <<>> /\ submitted = <<>>
        /\ menu = MENU_ANALYZE
        /\ rerun = FALSE
        /\ event = "start"
        /\ response = NotCalled
        /\ msgs = SheetMsgs(ok)
        /\ raised = "none"
        /\ form_shown = FALSE
        /\ cards = <<>> /\ df = <<>> /\ filters = NoFilters
        /\ gen = 0

\* app.py:78: every run connects anew.
Connect(ok) == /\ sheet' = init_spreadsheet(ok)
               /\ init_failed' = (init_failed \/ ~ok)

\* A run of the Analyze menu draws nothing of the Browse view.
NoBrowse == cards' = <<>> /\ df' = <<>> /\ filters' = NoFilters

\* app.py:78-142: the run the analyze button starts.
AnalyzeRun(ok, case_content, outcome, a) ==
    /\ ~rerun /\ menu = MENU_ANALYZE
    /\ LET ss == AfterAnalyze(session_state, case_content, a)
           stored == case_content # "" /\ Truthy(a.res)
       IN  /\ stored => gen < MaxAnalyses
           /\ Connect(ok)
           /\ session_state' = ss
           /\ gen' = IF stored THEN gen + 1 ELSE gen
           /\ raised' = FormRaised(ss)
           /\ form_shown' = FormShown(ss)
    /\ response' = IF case_content # "" THEN Called(outcome) ELSE NotCalled
    /\ msgs' = SheetMsgs(ok) \cup AnalyzeMsgs(case_content, a)
    /\ event' = "analyze"
    /\ rerun' = FALSE
    /\ NoBrowse
    /\ UNCHANGED <<store, row_gen, submitted, menu>>

\* app.py:90-98
ClickAnalyze(ok, case_content, outcome) ==
    AnalyzeRun(ok, case_content, outcome, get_ai_analysis(outcome))

\* app.py:144-171: the run the form's submit button starts; w is what the widgets hold.
ClickSubmit(ok, w, append_ok) ==
    /\ ~rerun /\ form_shown
    /\ LET sh == init_spreadsheet(ok)
           saved == Saved(sh, append_ok)
       IN  /\ saved => Len(store) < MaxRows
           /\ Connect(ok)
           /\ store' = IF saved THEN Append(store, Row(w)) ELSE store
           /\ row_gen' = IF saved THEN Append(row_gen, gen) ELSE row_gen
           /\ submitted' = IF saved THEN Append(submitted, w) ELSE submitted
           /\ session_state' = AfterSubmit(session_state, saved)
           /\ rerun' = saved
           /\ msgs' = SheetMsgs(ok) \cup SubmitMsgs(sh, append_ok)
    /\ event' = "submit"
    /\ response' = NotCalled
    /\ raised' = "none"
    /\ form_shown' = TRUE
    /\ NoBrowse
    /\ UNCHANGED <<menu, gen>>

\* app.py:174-176: the run the cancel button starts.
ClickCancel(ok) ==
    /\ ~rerun /\ form_shown
    /\ Connect(ok)
    /\ session_state' = DelTempRes(session_state)
    /\ rerun' = TRUE
    /\ event' = "cancel"
    /\ response' = NotCalled
    /\ msgs' = SheetMsgs(ok)
    /\ raised' = "none"
    /\ form_shown' = TRUE
    /\ NoBrowse
    /\ UNCHANGED <<store, row_gen, submitted, menu, gen>>

\* The run st.rerun() starts (app.py:167, 176): no button is pressed in it.
Rerun(ok) ==
    /\ rerun
    /\ Connect(ok)
    /\ rerun' = FALSE
    /\ event' = "rerun"
    /\ response' = NotCalled
    /\ msgs' = SheetMsgs(ok)
    /\ raised' = FormRaised(session_state)
    /\ form_shown' = FormShown(session_state)
    /\ NoBrowse
    /\ UNCHANGED <<session_state, store, row_gen, submitted, menu, gen>>

\* app.py:179-227: a run of the Browse menu with the filters cat and q.
BrowseRun(ok, cat, q) ==
    LET sh == init_spreadsheet(ok)
    IN  /\ Connect(ok)
        /\ df' = BrowseDf(sh, store)
        /\ cards' = BrowseCards(sh, store, cat, q)
        /\ raised' = BrowseRaised(sh, store, cat, q)
        /\ msgs' = SheetMsgs(ok) \cup BrowseMsgs(sh, store)
        /\ filters' = IF FiltersRendered(sh, store) THEN <<cat, q>> ELSE NoFilters
        /\ form_shown' = FALSE

\* app.py:81: the run the sidebar radio starts.
SelectMenu(ok, m) ==
    /\ ~rerun /\ m # menu
    /\ menu' = m
    /\ event' = "menu"
    /\ response' = NotCalled
    /\ rerun' = FALSE
    /\ IF m = MENU_BROWSE
       THEN BrowseRun(ok, ALL, "")
       ELSE /\ Connect(ok)
            /\ msgs' = SheetMsgs(ok)
            /\ raised' = FormRaised(session_state)
            /\ form_shown' = FormShown(session_state)
            /\ NoBrowse
    /\ UNCHANGED <<session_state, store, row_gen, submitted, gen>>

\* app.py:189-190: the run a change of the sidebar filters starts.
ChangeFilter(ok, cat, q) ==
    /\ ~rerun /\ menu = MENU_BROWSE
    /\ FiltersRendered(sheet, store)
    /\ <<cat, q>> # filters
    /\ event' = "filter"
    /\ response' = NotCalled
    /\ rerun' = FALSE
    /\ BrowseRun(ok, cat, q)
    /\ UNCHANGED <<session_state, store, row_gen, submitted, menu, gen>>

-----------------------------------------------------------------------------
(* The inputs of a session.                                                *)

\* A JSON object text, as json.dumps writes it, for <<key, text>> pairs without quotes.
RECURSIVE DumpPairs(_)
DumpPairs(pairs) ==
    IF Len(pairs) = 0 THEN ""
    ELSE "\"" \o pairs[1][1] \o "\": \"" \o pairs[1][2] \o "\""
         \o (IF Len(pairs) > 1 THEN ", " ELSE "") \o DumpPairs(Tail(pairs))

Dumps(pairs) == "{" \o DumpPairs(pairs) \o "}"

\* The answer wrapped in one pair of fences.
Fenced(t) == FENCE_JSON \o " " \o t \o " " \o FENCE

Without(pairs, key) == LET Keep(p) == p[1] # key IN SelectSeq(pairs, Keep)

\* The answer to a fraud case: categories hyeongsabeop>hyeongbeopgakchik>sagi, title sagi.
FullPairs == << <<"categories", "HSB>HBGC>SK">>, <<"case_no", "2023D1">>,
                <<"title", "SK">>, <<"date", "2024-1-5">>, <<"facts", "f">>,
                <<"issues", "1. a">>, <<"laws", "HB 347">>, <<"holdings", "h">>,
                <<"insight", "n">> >>

\* An object whose title holds a fence marker.
FencePairs == << <<"categories", "KT">>, <<"title", "a'''b">>, <<"date", "x">> >>

\* Every object the generation service answers with, as <<key, text>> pairs.
ObjectPairs == {FullPairs, FencePairs, Without(FullPairs, "title"),
                Without(FullPairs, "date"), Without(FullPairs, "categories")}

ObjectTexts == {Fenced(Dumps(FullPairs)), Dumps(FencePairs)}
               \cup {Dumps(Without(FullPairs, k)) : k \in {"title", "date", "categories"}}

\* Answers that are no JSON object: truncated, trailing comma, other top-level values.
OtherTexts == {"{\"title\": \"a\"", "{\"title\": \"a\",}",
               "[\"a\"]", "\"a\"", "0", "7", "null"}

Outcomes == {Raises} \cup {Answers(t) : t \in ObjectTexts \cup OtherTexts}

CaseContents == {"", "case text"}

\* What the user may leave in the form's widgets before submitting; d is their defaults.
Fillings(d) == {d, [d EXCEPT !.user_memo = "memo", !.case_url = "https://u"]}

BrowseCats == {ALL, "HSB"}
BrowseQueries == {"", "SK"}

\* The fillings of the form on screen.
FormFillings == IF form_shown /\ HasTempRes(session_state)
                THEN Fillings(Defaults(session_state["temp_res"])) ELSE {}

Next ==
    \/ \E ok \in BOOLEAN, c \in CaseContents, o \in Outcomes : ClickAnalyze(ok, c, o)
    \/ \E ok \in BOOLEAN, a \in BOOLEAN :
          \E w \in FormFillings : ClickSubmit(ok, w, a)
    \/ \E ok \in BOOLEAN : ClickCancel(ok)
    \/ \E ok \in BOOLEAN : Rerun(ok)
    \/ \E ok \in BOOLEAN, m \in {MENU_ANALYZE, MENU_BROWSE} : SelectMenu(ok, m)
    \/ \E ok \in BOOLEAN, cat \in BrowseCats, q \in BrowseQueries : ChangeFilter(ok, cat, q)

Spec == Init /\ [][Next]_vars

-----------------------------------------------------------------------------
(* The same session with one answer, a user who rewrites the title and the *)
(* classification in the form, and more Browse filters in use.  Hangul:    *)
(* son P, hae X, bae Y, sang D, chae Q, gak F, chik V, bul U, wi I,        *)
(* il O (as in ilban), ban a, so o, won w.                                 *)

\* sonhaebaesang(gi), with its parentheses; minsabeop>chaegwongakchik>bulbeophaengwi;
\* haengjeongbeop>ilbanhaengjeongbeop>heonbeopsowon | minsabeop>chaegwongakchik
BrowseFillings(d) ==
    {d,
     [d EXCEPT !.user_memo = "memo", !.case_url = "https://u"],
     [d EXCEPT !.final_title = "PXYD(K)", !.final_cats = "MSB>QRFV>UBGI"],
     [d EXCEPT !.final_cats = "GJB>OaGJB>EBow | MSB>QRFV"]}

BrowseFormFillings == IF form_shown /\ HasTempRes(session_state)
                      THEN BrowseFillings(Defaults(session_state["temp_res"])) ELSE {}

\* jeonche, minsabeop, heonbeop: three of the selectbox's entries
AllCats == {cat1_list[i] : i \in {1, 2, 5}}

\* sagi; sonhaebaesang(gi); an unclosed parenthesis
AllQueries == {"", "SK", "PXYD(K)", "("}

FullAnswer == Answers(Fenced(Dumps(FullPairs)))

NextBrowse ==
    \/ \E ok \in BOOLEAN : ClickAnalyze(ok, "case text", FullAnswer)
    \/ \E ok \in BOOLEAN, a \in BOOLEAN :
          \E w \in BrowseFormFillings : ClickSubmit(ok, w, a)
    \/ \E ok \in BOOLEAN : ClickCancel(ok)
    \/ \E ok \in BOOLEAN : Rerun(ok)
    \/ \E ok \in BOOLEAN, m \in {MENU_ANALYZE, MENU_BROWSE} : SelectMenu(ok, m)
    \/ \E ok \in BOOLEAN, cat \in AllCats, q \in AllQueries : ChangeFilter(ok, cat, q)

SpecBrowse == Init /\ [][NextBrowse]_vars

-----------------------------------------------------------------------------
(* The pending result: when it is held and when it is cleared.             *)

\* C1, as stated: the review form is shown only while a pending result is held, and
\* after every submit (saved, no worksheet, or append_row raised) and after every
\* cancel no pending result is held.
C1_ClearedByEverySubmit ==
    /\ (menu = MENU_ANALYZE /\ form_shown /\ ~rerun) => HasTempRes(session_state)
    /\ event \in {"submit", "cancel"} => ~HasTempRes(session_state)

\* C1, amended: the review form is shown only while a pending result is held; after
\* every cancel no pending result is held; after a submit no pending result is held
\* exactly when the row was appended, and the pending result is still held when the
\* worksheet was missing or append_row raised.
C1_ClearedBySavedSubmit ==
    /\ (menu = MENU_ANALYZE /\ form_shown /\ ~rerun) => HasTempRes(session_state)
    /\ event = "cancel" => ~HasTempRes(session_state)
    /\ event = "submit" => (HasTempRes(session_state) <=> "save_success" \notin msgs)

\* A submit without a worksheet has reported its error and the form is still there.
C1_Witness ==
    /\ event = "submit" /\ "save_no_sheet" \in msgs
    /\ HasTempRes(session_state) /\ form_shown /\ ~rerun

\* C2: after an analysis attempt with non-empty text that ends in a failure of the
\* generation call or of the parse, no pending result is held, whatever was held
\* before the attempt.
C2_FailureLeavesNothingPending ==
    (event = "analyze" /\ response.called /\ "ai_error" \in msgs)
        => ~HasTempRes(session_state)

\* C3: over any sequence of interactions at most one row is appended for a given
\* pending result, and a pending result whose row has been appended is no longer
\* pending.  Pending results are told apart by the analysis that stored them (gen).
C3_ConsumedOnce ==
    /\ \A i, j \in 1..Len(row_gen) : i # j => row_gen[i] # row_gen[j]
    /\ HasTempRes(session_state) => \A i \in 1..Len(row_gen) : row_gen[i] # gen
    /\ \A i \in 1..Len(row_gen) : row_gen[i] \in 1..gen

\* A row is stored for an earlier result, and a submit of the result now pending has
\* just failed on append_row: the same result can be submitted again.
C3_Witness ==
    /\ Len(store) >= 1 /\ HasTempRes(session_state)
    /\ event = "submit" /\ "save_exception" \in msgs /\ form_shown

-----------------------------------------------------------------------------
(* The worksheet that could not be opened.                                 *)

\* What a run without a worksheet does, as a step: it appends nothing, fetches and
\* shows no rows, a submit in it reports the missing worksheet, and a Browse run ends
\* without an exception.
StoreDisabledStep ==
    /\ store' = store
    /\ df' = <<>> /\ cards' = <<>>
    /\ event' = "submit" => "save_no_sheet" \in msgs'
    /\ menu' = MENU_BROWSE => raised' = "none"

\* C4, as stated: once init_spreadsheet has failed in a session, every later run has
\* both store operations disabled.
C4_DisabledForTheSession == [][init_failed => StoreDisabledStep]_vars

\* C4, amended: a run in which init_spreadsheet failed has both store operations
\* disabled: a submit in it appends no row and reports an error, its Browse view
\* fetches no rows, shows no rows and ends without an exception.
C4_DisabledForTheRun == [][sheet' = "None" => StoreDisabledStep]_vars

\* A submit in a run without a worksheet has reported the error.
C4_Witness ==
    /\ init_failed /\ sheet = "None"
    /\ event = "submit" /\ "save_no_sheet" \in msgs /\ store = <<>>

-----------------------------------------------------------------------------
(* The answer of the generation service and the result it becomes.         *)

\* The dict json.loads builds from an object whose values are the texts of pairs.
ObjectOf(pairs) == JObject([i \in 1..Len(pairs) |-> <<pairs[i][1], JString(pairs[i][2])>>])

RequiredKeys == {"title", "date", "categories"}

HasRequired(pairs) == \A k \in RequiredKeys : \E i \in 1..Len(pairs) : pairs[i][1] = k

\* r is the successful parse of v.
ParsedAs(r, v) == r.ok /\ r.val = v

\* C7: for every JSON object with the required keys, whatever its string values hold
\* (a fence marker included), answered bare or inside one pair of fences, the result
\* the analysis stores is exactly that object.
C7_NormalizerRecoversObject ==
    \A pairs \in ObjectPairs :
        (/\ HasRequired(pairs)
         /\ event = "analyze" /\ response.called /\ ~response.raised
         /\ response.text \in {Dumps(pairs), Fenced(Dumps(pairs))})
        => (/\ HasTempRes(session_state)
            /\ session_state["temp_res"] = ObjectOf(pairs))

\* C8: for every answer that is no JSON object once the fences are stripped
\* (truncated, trailing comma, or an array, string, number or null at the top level)
\* the attempt reports a failure and the answer does not become the pending result.
C8_NonObjectIsFailure ==
    (/\ event = "analyze" /\ response.called /\ ~response.raised
     /\ response.text \in OtherTexts)
    => (/\ "ai_error" \in msgs
        /\ ~(/\ HasTempRes(session_state)
             /\ ParsedAs(json_loads(CleanJson(response.text)), session_state["temp_res"])))

\* The pending result is a dict that lacks key k, in a run of the Analyze menu.
PendingLacks(k) ==
    /\ menu = MENU_ANALYZE /\ HasTempRes(session_state)
    /\ session_state["temp_res"].kind = "object"
    /\ ~HasKey(session_state["temp_res"], k)

\* The review stopped on a field access: no form, so nothing to submit.
ReviewFails == raised = "KeyError" /\ ~form_shown

\* C9, as stated: a pending result that lacks title, date or categories makes the
\* review fail with a field-access error; for each of the three keys.
C9_EachRequiredKeyIsFatal == \A k \in RequiredKeys : PendingLacks(k) => ReviewFails

\* C9, amended: a pending result that lacks title or categories makes the review fail
\* with a field-access error (no form, so no row can be saved from it); a pending
\* result that has both and lacks date is reviewed without an error, its date widget
\* on the current date.
C9_TitleAndCategoriesAreFatal ==
    /\ \A k \in {"title", "categories"} : PendingLacks(k) => ReviewFails
    /\ (PendingLacks("date") /\ ~PendingLacks("title") /\ ~PendingLacks("categories"))
           => (/\ raised = "none" /\ form_shown
               /\ \A w \in FormFillings : w.final_date = Now)

\* A result without categories is pending and the review has stopped on it.
C9_Witness == PendingLacks("categories") /\ ~PendingLacks("title") /\ ReviewFails

-----------------------------------------------------------------------------
(* The rows written and the rows read back and shown.                      *)

\* The value submitted for the field that column h is named after.
FieldOf(w, h) ==
    CASE h = "ID"                -> w.final_case_no
      [] h = "SeonGoIlJa"        -> DateStr(w.final_date)
      [] h = "SaGeonMyeong"      -> w.final_title
      [] h = "BunRyu"            -> w.final_cats
      [] h = "SaSilGwanGye"      -> w.final_facts
      [] h = "JaengJeom"         -> w.final_issues
      [] h = "GwanRyeonBeopRyul" -> w.final_laws
      [] h = "PanGyeolYoJi"      -> w.final_holdings
      [] h = "SilMuJeokUiUi"     -> w.final_insight
      [] h = "NaeMemo"           -> w.user_memo
      [] h = "URL"               -> w.case_url

\* The card shows the values submitted for the fields its parts are labelled with.
CardShows(c, w) ==
    /\ c.head_date = DateStr(w.final_date) /\ c.head_title = w.final_title
    /\ c.facts = w.final_facts /\ c.issues = w.final_issues /\ c.laws = w.final_laws
    /\ c.holdings = w.final_holdings /\ c.insight = w.final_insight
    /\ c.memo = w.user_memo /\ c.url = w.case_url

PassesAsSubstring(r, cat, q) ==
    /\ cat = ALL \/ Contains(r["BunRyu"], cat)
    /\ \/ q = ""
       \/ Contains(r["SaGeonMyeong"], q)
       \/ Contains(r["JaengJeom"], q)
       \/ Contains(r["PanGyeolYoJi"], q)

\* C6: the Browse view shows exactly the stored rows that pass every active filter,
\* in insertion order: the category is jeonche or a substring of the row's
\* classification, and the query is empty or a substring of the row's title, issues
\* or holdings.
C6_ShowsRowsPassingFilters ==
    (menu = MENU_BROWSE /\ FiltersRendered(sheet, store))
    => /\ raised = "none"
       /\ LET Keep(r) == PassesAsSubstring(r, filters[1], filters[2])
          IN  cards = Cards(SelectSeq(df, Keep))

\* The level-1 components of the classification paths of s.
Level1s(s) == LET paths == Split(s, "|")
              IN  {Strip(Split(paths[i], ">")[1]) : i \in 1..Len(paths)}

\* C10: with a top-level category selected (and no query), a row is shown if and only
\* if one of its classification paths has that category as its level-1 component; a
\* row where the category's text occurs only inside a level-2 or level-3 label is
\* not shown.
C10_CategoryEqualsLevel1 ==
    (menu = MENU_BROWSE /\ FiltersRendered(sheet, store)
        /\ filters[1] # ALL /\ filters[2] = "")
    => LET Keep(r) == filters[1] \in Level1s(r["BunRyu"])
       IN  cards = Cards(SelectSeq(df, Keep))
=============================================================================
